---- MODULE Spec2Model ----
(***************************************************************************)
(* A model of codap-phone: the client-side cache of CODAP entities, the    *)
(* handler of CODAP-initiated notifications, the flattening of a leaf case *)
(* with its ancestors, and the reconciliation of a context's collections   *)
(* (updateContextWithDataSet).                                             *)
(*                                                                         *)
(* src/unnamed/part_000 holds index.ts (lines 1-743) and endpoint.ts       *)
(* (lines 745-856).  cache.ts, util.ts, actions.ts, resource.ts, types.ts  *)
(* and listeners.ts are not part of the reviewed source: what the model    *)
(* needs of them is taken from the specification and marked so in          *)
(* MODEL_MAP.json.                                                         *)
(***************************************************************************)
EXTENDS Integers, Sequences, FiniteSets, TLC

VARIABLES
    cache,      \* the three stores of cache.ts: context, cases, records
    shadow,     \* per store and key, the value of the last set, or absent
    pending,    \* requests handed to phone.call, not yet answered (FIFO)
    task,       \* the client operation in progress, or idle
    run         \* the invocation of codapRequestHandler in progress, or idle

vars == <<cache, shadow, pending, task, run>>

----------------------------------------------------------------------------
(* Bounds *)

\* The longest batch of operations in one context-change notification.
MaxBatch == 2

\* The longest requested collection sequence of a dataset.
MaxRequested == 2

\* The longest batch of the notifications of SpecBatches.
MaxOps == 3

----------------------------------------------------------------------------
(* Optional values: <<>> is undefined, <<v>> is the value v. *)

None == <<>>

Some(v) == <<v>>

----------------------------------------------------------------------------
(* cache.ts: three keyed stores.  A store is a function from the keys that *)
(* are present to their values.                                            *)

EmptyCache == [context |-> <<>>, cases |-> <<>>, records |-> <<>>]

StoreGet(store, key) == IF key \in DOMAIN store THEN Some(store[key]) ELSE None

StoreSet(store, key, v) ==
    [k \in DOMAIN store \cup {key} |-> IF k = key THEN v ELSE store[k]]

\* A store whose invalidate leaves the entry in place.
StoreInvalidateKeeps(store, key) == store

StoreInvalidate(store, key) == [k \in DOMAIN store \ {key} |-> store[k]]

getContext(c, name) == StoreGet(c.context, name)

getCase(c, id) == StoreGet(c.cases, id)

getRecords(c, name) == StoreGet(c.records, name)

setContext(c, name, context) ==
    [c EXCEPT !.context = StoreSet(c.context, name, context)]

\* The case store is keyed by the case id alone; the context is not part of
\* the key.
setCase(c, context, id, result) ==
    [c EXCEPT !.cases = StoreSet(c.cases, id, result)]

setRecords(c, name, records) ==
    [c EXCEPT !.records = StoreSet(c.records, name, records)]

invalidateCase(c, id) == [c EXCEPT !.cases = StoreInvalidate(c.cases, id)]

\* Invalidating a context drops its schema entry and its record set.
invalidateContext(c, name) ==
    [c EXCEPT !.context = StoreInvalidate(c.context, name),
              !.records = StoreInvalidate(c.records, name)]

----------------------------------------------------------------------------
(* types.ts: the names the handler compares against. *)

Notify == "notify"

DocumentChangeNotice == <<"documentChangeNotice">>

DataContextChangeNotice == "dataContextChangeNotice"

DataContextCountChanged == "dataContextCountChanged"

UpdateContext == "UpdateContext"

DeleteCases == "DeleteCases"

UpdateCases == "UpdateCases"

\* The list without its last two members.
mutatingOperationsShort ==
    << "UpdateCases", "CreateCases", "DeleteCases", "MoveCases",
       "CreateAttribute", "UpdateAttribute", "DeleteAttribute",
       "MoveAttribute", "UpdateCollection", "CreateCollection",
       "DeleteCollection", "DependentCases" >>

\* endpoint.ts: the operations that change a context's schema or data.
\* The list without the two case operations the handler treats apart.
mutatingOperationsNoCases ==
    << "CreateCases", "MoveCases", "CreateAttribute", "UpdateAttribute",
       "DeleteAttribute", "MoveAttribute", "UpdateCollection",
       "CreateCollection", "DeleteCollection", "DependentCases",
       "HideAttribute", "UnhideAttribute" >>

mutatingOperations ==
    << "UpdateCases", "CreateCases", "DeleteCases", "MoveCases",
       "CreateAttribute", "UpdateAttribute", "DeleteAttribute",
       "MoveAttribute", "UpdateCollection", "CreateCollection",
       "DeleteCollection", "DependentCases", "HideAttribute",
       "UnhideAttribute" >>

\* Array.prototype.includes
includes(list, x) == \E i \in 1..Len(list) : list[i] = x

\* The kinds of operation a context-change notification can carry.
ContextChangeOperation ==
    { "UpdateContext", "UpdateCases", "CreateCases", "DeleteCases",
      "MoveCases", "CreateAttribute", "UpdateAttribute", "DeleteAttribute",
      "MoveAttribute", "UpdateCollection", "CreateCollection",
      "DeleteCollection", "DependentCases", "HideAttribute",
      "UnhideAttribute" }

----------------------------------------------------------------------------
(* A resource string is a sequence of tokens: its head names the resource  *)
(* kind, and a context-change notice carries the context's name between    *)
(* brackets: dataContextChangeNotice[name].                                *)

ContextChangeResource(name) == <<DataContextChangeNotice, "[", name, "]">>

\* String.prototype.search for "\\[": the 0-based place of the first
\* bracket, -1 when there is none.
search(resource) ==
    IF \E i \in 1..Len(resource) : resource[i] = "["
    THEN (CHOOSE i \in 1..Len(resource) :
              /\ resource[i] = "["
              /\ \A j \in 1..(i - 1) : resource[j] # "[") - 1
    ELSE -1

\* String.prototype.slice(start, end), 0-based, end excluded.
slice(resource, start, end) == SubSeq(resource, start + 1, end)

RECURSIVE join(_)
join(tokens) ==
    IF tokens = <<>> THEN "" ELSE Head(tokens) \o join(Tail(tokens))

\* String.prototype.startsWith
startsWith(resource, prefix) == Len(resource) >= 1 /\ resource[1] = prefix

----------------------------------------------------------------------------
(* What one invocation of codapRequestHandler does, as the sequence of the *)
(* calls it makes, in order.                                               *)

\* command.values when the command carries none: neither an array nor an
\* object with an operation.
Undefined ==
    [isArray |-> FALSE, items |-> <<>>, operation |-> "",
     undefined |-> TRUE]

Effect(fn, ctx, id) == [fn |-> fn, ctx |-> ctx, id |-> id]

InvalidateCaseEffects(caseIDs) ==
    [i \in 1..Len(caseIDs) |-> Effect("invalidateCase", "", caseIDs[i])]

\* The loop body with the list flag assigned instead of accumulated: the
\* last value of the batch decides it.
handleValueLastWins(st, value) ==
    [ contextUpdate |->
          st.contextUpdate \/ includes(mutatingOperations, value.operation),
      contextListUpdate |-> value.operation = "UpdateContext",
      effects |->
          IF /\ value.operation \in {"DeleteCases", "UpdateCases"}
             /\ value.result.isArray
          THEN st.effects
               \o [i \in 1..Len(value.result.caseIDs) |->
                      [fn |-> "invalidateCase", ctx |-> "",
                       id |-> value.result.caseIDs[i]]]
          ELSE st.effects ]

\* The loop body invalidating the cases of every operation that lists some.
handleValueAnyResult(st, value) ==
    [ contextUpdate |->
          st.contextUpdate \/ includes(mutatingOperations, value.operation),
      contextListUpdate |->
          st.contextListUpdate \/ value.operation = "UpdateContext",
      effects |->
          IF value.result.isArray
          THEN st.effects
               \o [i \in 1..Len(value.result.caseIDs) |->
                      [fn |-> "invalidateCase", ctx |-> "",
                       id |-> value.result.caseIDs[i]]]
          ELSE st.effects ]

\* The loop body calling the context-list listeners at each update-context
\* operation, besides setting the flag.
handleValueCallsInLoop(st, value) ==
    [ contextUpdate |->
          st.contextUpdate \/ includes(mutatingOperations, value.operation),
      contextListUpdate |->
          st.contextListUpdate \/ value.operation = "UpdateContext",
      effects |->
          (IF /\ value.operation \in {"DeleteCases", "UpdateCases"}
              /\ value.result.isArray
           THEN st.effects
                \o [i \in 1..Len(value.result.caseIDs) |->
                       [fn |-> "invalidateCase", ctx |-> "",
                        id |-> value.result.caseIDs[i]]]
           ELSE st.effects)
          \o (IF value.operation = "UpdateContext"
              THEN << [fn |-> "callAllContextListeners", ctx |-> "",
                       id |-> 0] >>
              ELSE <<>>) ]

\* The body of the loop over command.values, for one value.
handleValue(st, value) ==
    [ contextUpdate |->
          st.contextUpdate \/ includes(mutatingOperations, value.operation),
      contextListUpdate |->
          st.contextListUpdate \/ value.operation = UpdateContext,
      effects |->
          IF /\ value.operation \in {DeleteCases, UpdateCases}
             /\ value.result.isArray
          THEN st.effects \o InvalidateCaseEffects(value.result.caseIDs)
          ELSE st.effects ]

RECURSIVE handleValues(_, _, _)
handleValues(values, i, st) ==
    IF i > Len(values)
    THEN st
    ELSE handleValues(values, i + 1, handleValue(st, values[i]))

contextNameOf(resource) ==
    join(slice(resource, search(resource) + 1, Len(resource) - 1))

\* The document-notice branch forgetting the listeners.
documentChangeSilent == << Effect("callback", "", 0) >>

\* The branch for a data-context-count-changed document notice.
documentChange ==
    << Effect("callAllContextListeners", "", 0), Effect("callback", "", 0) >>

\* The contextUpdate branch calling the listeners before it invalidates.
contextUpdatedListenersFirst(contextName) ==
    << Effect("callUpdateListenersForContext", contextName, 0),
       Effect("invalidateContext", contextName, 0) >>

\* What the handler does after the loop when contextUpdate is set.
contextUpdated(contextName) ==
    << Effect("invalidateContext", contextName, 0),
       Effect("callUpdateListenersForContext", contextName, 0) >>

\* command.values.operation is read once the resource is the document
\* notice: with values undefined the read throws a TypeError, the handler
\* ends there and the callback is never called.
codapRequestHandler(command) ==
    IF command.action # Notify
    THEN << Effect("callback", "", 0) >>
    ELSE IF /\ command.resource = DocumentChangeNotice
            /\ command.values = Undefined
    THEN << Effect("throw", "", 0) >>
    ELSE IF /\ command.resource = DocumentChangeNotice
            /\ command.values.operation = DataContextCountChanged
    THEN documentChange
    ELSE IF /\ startsWith(command.resource, DataContextChangeNotice)
            /\ command.values.isArray
    THEN LET contextName == contextNameOf(command.resource)
             st == handleValues(command.values.items, 1,
                       [ contextUpdate |-> FALSE,
                         contextListUpdate |-> FALSE,
                         effects |-> <<>> ])
         IN  st.effects
             \o (IF st.contextUpdate
                 THEN contextUpdated(contextName)
                 ELSE <<>>)
             \o (IF st.contextListUpdate
                 THEN << Effect("callAllContextListeners", "", 0) >>
                 ELSE <<>>)
             \o << Effect("callback", "", 0) >>
    ELSE << Effect("callback", "", 0) >>

\* The handler calling a function that drops the schema entry alone.
applyEffectSchemaOnly(c, e) ==
    IF e.fn = "invalidateCase"
    THEN [c EXCEPT !.cases = [k \in DOMAIN c.cases \ {e.id} |-> c.cases[k]]]
    ELSE IF e.fn = "invalidateContext"
    THEN [c EXCEPT !.context =
                       [k \in DOMAIN c.context \ {e.ctx} |-> c.context[k]]]
    ELSE c

\* The handler dropping every schema and every record set when one context
\* changed.
applyEffectAllContexts(c, e) ==
    IF e.fn = "invalidateCase" THEN invalidateCase(c, e.id)
    ELSE IF e.fn = "invalidateContext"
    THEN [c EXCEPT !.context = <<>>, !.records = <<>>]
    ELSE c

\* The cache after one call of the handler.
applyEffect(c, e) ==
    IF e.fn = "invalidateCase" THEN invalidateCase(c, e.id)
    ELSE IF e.fn = "invalidateContext" THEN invalidateContext(c, e.ctx)
    ELSE c

RECURSIVE applyEffects(_, _)
applyEffects(c, effects) ==
    IF effects = <<>>
    THEN c
    ELSE applyEffects(applyEffect(c, Head(effects)), Tail(effects))

----------------------------------------------------------------------------
(* The host.  Its contexts and cases are fixed; what it answers to a       *)
(* request for a context is one of the shapes below (it may change a       *)
(* context on its own between two requests).                               *)

ContextNames == {"c1", "c2"}

Collection(name, labels) == [name |-> name, labels |-> labels]

\* A collection as the host or a caller may give it: labels may be missing.
HostSchemas(name) ==
    IF name = "c1"
    THEN { [ name |-> "c1",
             collections |-> << Collection("roots", l),
                                Collection("mids", "custom"),
                                Collection("leaves", "custom") >> ] :
           l \in {"undefined", "custom"} }
    ELSE { [ name |-> name,
             collections |-> << Collection("only", "undefined") >> ] }

HostCaseList ==
    << [ id |-> 1, parent |-> None, values |-> [a |-> 1],
         context |-> "c1", collection |-> "roots" ],
       [ id |-> 2, parent |-> Some(1), values |-> [a |-> 2, b |-> 2],
         context |-> "c1", collection |-> "mids" ],
       [ id |-> 3, parent |-> Some(2), values |-> [b |-> 3, c |-> 3],
         context |-> "c1", collection |-> "leaves" ],
       [ id |-> 4, parent |-> Some(2), values |-> [c |-> 4],
         context |-> "c1", collection |-> "leaves" ],
       [ id |-> 5, parent |-> None, values |-> [a |-> 5],
         context |-> "c2", collection |-> "only" ] >>

CaseIds == { HostCaseList[i].id : i \in 1..Len(HostCaseList) }

\* The case as a response carries it (ReturnedCase).
ReturnedCase(hc) == [id |-> hc.id, parent |-> hc.parent, values |-> hc.values]

HostCase(id) ==
    ReturnedCase(HostCaseList[CHOOSE i \in 1..Len(HostCaseList) :
                                  HostCaseList[i].id = id])

RECURSIVE HostCasesFrom(_, _, _)
HostCasesFrom(i, context, collection) ==
    IF i > Len(HostCaseList)
    THEN <<>>
    ELSE (IF /\ HostCaseList[i].context = context
             /\ HostCaseList[i].collection = collection
          THEN << ReturnedCase(HostCaseList[i]) >>
          ELSE <<>>) \o HostCasesFrom(i + 1, context, collection)

\* The answer to allCasesWithSearch(context, collection).
HostCases(context, collection) == HostCasesFrom(1, context, collection)

----------------------------------------------------------------------------
(* util.ts *)

fillCollectionWithDefaults(collection) ==
    [collection EXCEPT
        !.labels = IF collection.labels = "undefined"
                   THEN "default"
                   ELSE collection.labels]

normalizeDataContext(values) ==
    [ name |-> values.name,
      collections |-> [i \in 1..Len(values.collections) |->
                          fillCollectionWithDefaults(values.collections[i])] ]

collectionsEqual(xs, ys) ==
    /\ Len(xs) = Len(ys)
    /\ \A i \in 1..Len(xs) : xs[i] = ys[i]

----------------------------------------------------------------------------
(* Flattening: dataItemFromChildCase inside getDataFromContext. *)

\* { ...own, ...other }: the keys of both, and on a key of both the value
\* of the one spread last.
Spread(own, other) ==
    [k \in DOMAIN own \cup DOMAIN other |->
        IF k \in DOMAIN other THEN other[k] ELSE own[k]]

\* chain is a case followed by the cases getCaseById gave for its parent,
\* its parent's parent, and so on up to a case without parent.
RECURSIVE dataItemFromChildCase(_)
dataItemFromChildCase(chain) ==
    IF Len(chain) = 1
    THEN chain[1].values
    ELSE Spread(chain[1].values, dataItemFromChildCase(Tail(chain)))

Last(seq) == seq[Len(seq)]

\* c.parent === null || c.parent === undefined
complete(chain) == Last(chain).parent = None

\* How far dataItemFromChildCase gets without a request: getCaseById
\* resolves at once for every parent the case store holds.
RECURSIVE advance(_, _)
advance(c, chain) ==
    IF complete(chain)
    THEN chain
    ELSE LET cached == getCase(c, Last(chain).parent[1])
         IN  IF cached # None
             THEN advance(c, Append(chain, cached[1]))
             ELSE chain

----------------------------------------------------------------------------
(* The reference the cache is compared to: per store and key, the value    *)
(* given by the last set, absent if there was none or the key was          *)
(* invalidated since.                                                      *)

EmptyShadow ==
    [ context |-> [n \in ContextNames |-> None],
      cases |-> [i \in CaseIds |-> None],
      records |-> [n \in ContextNames |-> None] ]

ShadowSet(sh, store, key, v) == [sh EXCEPT ![store][key] = Some(v)]

ShadowDrop(f, key) == [k \in DOMAIN f |-> IF k = key THEN None ELSE f[k]]

ShadowEffect(sh, e) ==
    IF e.fn = "invalidateCase"
    THEN [sh EXCEPT !.cases = ShadowDrop(sh.cases, e.id)]
    ELSE IF e.fn = "invalidateContext"
    THEN [sh EXCEPT !.context = ShadowDrop(sh.context, e.ctx),
                    !.records = ShadowDrop(sh.records, e.ctx)]
    ELSE sh

RECURSIVE ShadowEffects(_, _)
ShadowEffects(sh, effects) ==
    IF effects = <<>>
    THEN sh
    ELSE ShadowEffects(ShadowEffect(sh, Head(effects)), Tail(effects))

----------------------------------------------------------------------------
(* Requests and the client operation in progress. *)

Request(kind, ctx, collection, id, leaf) ==
    [kind |-> kind, ctx |-> ctx, collection |-> collection, id |-> id,
     leaf |-> leaf]

NoDataset == [collections |-> <<>>, records |-> <<>>]

\* missed records, for the claims, the places of the running call at which
\* the handler invalidated the call's context.
IdleTask ==
    [ op |-> "idle", ctx |-> "", pc |-> "idle", leaves |-> <<>>,
      dataset |-> NoDataset, requests |-> <<>>, responses |-> <<>>,
      settled |-> "none", errors |-> <<>>, context |-> None,
      records |-> None, missed |-> {} ]

NewTask(op, ctx, pc) == [IdleTask EXCEPT !.op = op, !.ctx = ctx, !.pc = pc]

Resolved(t) == [t EXCEPT !.pc = "done", !.settled = "resolved"]

Rejected(t, error) ==
    [t EXCEPT !.pc = "done", !.settled = "rejected",
              !.errors = Append(t.errors, error)]

IdleRun ==
    [ active |-> FALSE, shape |-> "", ctx |-> "", only |-> "",
      listed |-> {}, cased |-> FALSE, k |-> 0, m |-> 0, pre |-> EmptyCache,
      trace |-> <<>> ]

Quiet == task.op = "idle" /\ pending = <<>> /\ ~run.active

----------------------------------------------------------------------------
(* updateContextWithDataSet: the requests of the batch. *)

ActionRequest(op, context, collection, collections, records) ==
    [op |-> op, context |-> context, collection |-> collection,
     collections |-> collections, records |-> records]

deleteAllCases(context, collection) ==
    ActionRequest("deleteAllCases", context, collection, <<>>, <<>>)

createCollections(context, collections) ==
    ActionRequest("createCollections", context, "", collections, <<>>)

deleteCollection(context, collection) ==
    ActionRequest("deleteCollection", context, collection, <<>>, <<>>)

insertDataItems(context, records) ==
    ActionRequest("insertDataItems", context, "", <<>>, records)

\* collections.reduce(concatNames, "")
RECURSIVE concatNames(_)
concatNames(collections) ==
    IF collections = <<>>
    THEN ""
    ELSE Head(collections).name \o concatNames(Tail(collections))

\* The name of the placeholder collection.
uniqueName(context, dataset) ==
    concatNames(context.collections) \o concatNames(dataset.collections)

\* The batch with the old collections deleted before the placeholder is
\* created.
updateRequestsDeleteFirst(contextName, context, dataset) ==
    LET existing == context.collections
        normalizedCollections ==
            [i \in 1..Len(dataset.collections) |->
                fillCollectionWithDefaults(dataset.collections[i])]
        placeholder == uniqueName(context, dataset)
    IN  [i \in 1..Len(existing) |->
            deleteAllCases(contextName, existing[i].name)]
        \o (IF ~collectionsEqual(existing, normalizedCollections)
            THEN [i \in 1..Len(existing) |->
                     deleteCollection(contextName, existing[i].name)]
                 \o << createCollections(contextName,
                           << Collection(placeholder, "empty") >>),
                       createCollections(contextName, dataset.collections),
                       deleteCollection(contextName, placeholder) >>
            ELSE <<>>)
        \o << insertDataItems(contextName, dataset.records) >>

\* The batch with the requested collections compared as given, their
\* defaults not filled in.
updateRequestsUnfilled(contextName, context, dataset) ==
    LET existing == context.collections
        placeholder == uniqueName(context, dataset)
    IN  [i \in 1..Len(existing) |->
            deleteAllCases(contextName, existing[i].name)]
        \o (IF ~collectionsEqual(existing, dataset.collections)
            THEN << createCollections(contextName,
                        << Collection(placeholder, "empty") >>) >>
                 \o [i \in 1..Len(existing) |->
                        deleteCollection(contextName, existing[i].name)]
                 \o << createCollections(contextName, dataset.collections),
                       deleteCollection(contextName, placeholder) >>
            ELSE <<>>)
        \o << insertDataItems(contextName, dataset.records) >>

\* The batch with the cases deleted only when the collections change.
updateRequestsKeepCases(contextName, context, dataset) ==
    LET existing == context.collections
        normalizedCollections ==
            [i \in 1..Len(dataset.collections) |->
                fillCollectionWithDefaults(dataset.collections[i])]
        placeholder == uniqueName(context, dataset)
    IN  (IF ~collectionsEqual(existing, normalizedCollections)
         THEN [i \in 1..Len(existing) |->
                  deleteAllCases(contextName, existing[i].name)]
              \o << createCollections(contextName,
                        << Collection(placeholder, "empty") >>) >>
              \o [i \in 1..Len(existing) |->
                     deleteCollection(contextName, existing[i].name)]
              \o << createCollections(contextName, dataset.collections),
                    deleteCollection(contextName, placeholder) >>
         ELSE <<>>)
        \o << insertDataItems(contextName, dataset.records) >>

updateRequests(contextName, context, dataset) ==
    LET existing == context.collections
        normalizedCollections ==
            [i \in 1..Len(dataset.collections) |->
                fillCollectionWithDefaults(dataset.collections[i])]
        deleteCases ==
            [i \in 1..Len(existing) |->
                deleteAllCases(contextName, existing[i].name)]
        placeholder == uniqueName(context, dataset)
        swap ==
            IF ~collectionsEqual(existing, normalizedCollections)
            THEN << createCollections(contextName,
                        << Collection(placeholder, "empty") >>) >>
                 \o [i \in 1..Len(existing) |->
                        deleteCollection(contextName, existing[i].name)]
                 \o << createCollections(contextName, dataset.collections),
                       deleteCollection(contextName, placeholder) >>
            ELSE <<>>
    IN  deleteCases \o swap
        \o << insertDataItems(contextName, dataset.records) >>

\* The loop looking at the first response alone.
scanResponsesFirst(responses, i, contextName) ==
    IF responses # <<>> /\ ~responses[1]
    THEN << "Failed to update " \o contextName >>
    ELSE <<>>

\* The loop over the responses: it throws at the first one that failed.
RECURSIVE scanResponses(_, _, _)
scanResponses(responses, i, contextName) ==
    IF i > Len(responses)
    THEN <<>>
    ELSE IF ~responses[i]
    THEN << "Failed to update " \o contextName >>
    ELSE scanResponses(responses, i + 1, contextName)

----------------------------------------------------------------------------
(* The client operations.  Each runs until it has to wait for a response.  *)

\* What follows "await getDataContext(...)" in getDataFromContext and in
\* updateContextWithDataSet, once the context is there.
withContext(t, context) ==
    IF t.op = "getDataFromContext"
    THEN [ task |-> [t EXCEPT !.pc = "awaitCases"],
           request |-> Request("getCases", t.ctx,
                               Last(context.collections).name, 0, 0) ]
    ELSE [ task |-> [t EXCEPT !.pc = "awaitBatch",
                              !.requests =
                                  updateRequests(t.ctx, context, t.dataset)],
           request |-> Request("batch", t.ctx, "", 0, 0) ]

getDataContext(contextName) ==
    /\ Quiet
    /\ LET cached == getContext(cache, contextName)
       IN  IF cached # None
           THEN /\ task' = Resolved([NewTask("getDataContext", contextName,
                                             "done")
                                        EXCEPT !.context = cached])
                /\ pending' = pending
           ELSE /\ task' = NewTask("getDataContext", contextName,
                                   "awaitContext")
                /\ pending' = Append(pending,
                       Request("getContext", contextName, "", 0, 0))
    /\ UNCHANGED <<cache, shadow, run>>

\* An operation that starts with "await getDataContext(contextName)".
startWithContext(t) ==
    LET cached == getContext(cache, t.ctx)
    IN  IF cached # None
        THEN /\ task' = withContext(t, cached[1]).task
             /\ pending' = Append(pending, withContext(t, cached[1]).request)
        ELSE /\ task' = [t EXCEPT !.pc = "awaitContext"]
             /\ pending' = Append(pending,
                    Request("getContext", t.ctx, "", 0, 0))

\* getDataFromContext without the look in the record-set store.
getDataFromContextNoLookup(context) ==
    /\ Quiet
    /\ startWithContext(NewTask("getDataFromContext", context, "start"))
    /\ UNCHANGED <<cache, shadow, run>>

getDataFromContext(context) ==
    /\ Quiet
    /\ LET cached == getRecords(cache, context)
       IN  IF cached # None
           THEN /\ task' = Resolved([NewTask("getDataFromContext", context,
                                             "done")
                                        EXCEPT !.records = cached])
                /\ pending' = pending
           ELSE startWithContext(NewTask("getDataFromContext", context,
                                         "start"))
    /\ UNCHANGED <<cache, shadow, run>>

updateContextWithDataSet(contextName, dataset) ==
    /\ Quiet
    /\ startWithContext([NewTask("updateContextWithDataSet", contextName,
                                 "start")
                            EXCEPT !.dataset = dataset])
    /\ UNCHANGED <<cache, shadow, run>>

\* The response callback storing the response's values before it looks at
\* success.
RespondContextStoresFirst(success, values) ==
    /\ pending # <<>>
    /\ Head(pending).kind = "getContext"
    /\ ~run.active
    /\ LET context == normalizeDataContext(values)
       IN  /\ cache' = setContext(cache, task.ctx, context)
           /\ shadow' = ShadowSet(shadow, "context", task.ctx, context)
           /\ IF ~success
              THEN /\ task' = Rejected(task,
                                  "Failed to get context " \o task.ctx)
                   /\ pending' = Tail(pending)
              ELSE IF task.op = "getDataContext"
              THEN /\ task' = Resolved([task EXCEPT
                                   !.context = Some(context)])
                   /\ pending' = Tail(pending)
              ELSE /\ task' = withContext(task, context).task
                   /\ pending' = Append(Tail(pending),
                          withContext(task, context).request)
    /\ UNCHANGED run

\* The response to the request of getDataContext.
RespondContext(success, values) ==
    /\ pending # <<>>
    /\ Head(pending).kind = "getContext"
    /\ ~run.active
    /\ IF success
       THEN LET context == normalizeDataContext(values)
            IN  /\ cache' = setContext(cache, task.ctx, context)
                /\ shadow' = ShadowSet(shadow, "context", task.ctx, context)
                /\ IF task.op = "getDataContext"
                   THEN /\ task' = Resolved([task EXCEPT
                                        !.context = Some(context)])
                        /\ pending' = Tail(pending)
                   ELSE /\ task' = withContext(task, context).task
                        /\ pending' = Append(Tail(pending),
                               withContext(task, context).request)
       ELSE /\ task' = Rejected(task, "Failed to get context " \o task.ctx)
            /\ pending' = Tail(pending)
            /\ UNCHANGED <<cache, shadow>>
    /\ UNCHANGED run

Leaf(c, chain) ==
    LET ch == advance(c, chain)
    IN  [chain |-> ch, status |-> IF complete(ch) THEN "done" ELSE "wait"]

\* The getCaseById requests of the leaves that wait, in the leaves' order.
RECURSIVE caseRequests(_, _, _)
caseRequests(ctx, leaves, i) ==
    IF i > Len(leaves)
    THEN <<>>
    ELSE (IF leaves[i].status = "wait"
          THEN << Request("getCase", ctx, "",
                          Last(leaves[i].chain).parent[1], i) >>
          ELSE <<>>) \o caseRequests(ctx, leaves, i + 1)

allDone(leaves) == \A i \in 1..Len(leaves) : leaves[i].status = "done"

recordsOf(leaves) ==
    [i \in 1..Len(leaves) |-> dataItemFromChildCase(leaves[i].chain)]

\* The records given to the caller, and cached only if the context was not
\* invalidated since the call began.
flattenedIfFresh(t, c, sh, leaves) ==
    IF t.pc = "flatten" /\ allDone(leaves)
    THEN [ task |-> Resolved([t EXCEPT !.leaves = leaves,
                                       !.records = Some(recordsOf(leaves))]),
           cache |-> IF t.missed = {}
                     THEN setRecords(c, t.ctx, recordsOf(leaves))
                     ELSE c,
           shadow |-> IF t.missed = {}
                      THEN ShadowSet(sh, "records", t.ctx, recordsOf(leaves))
                      ELSE sh ]
    ELSE [ task |-> [t EXCEPT !.leaves = leaves], cache |-> c,
           shadow |-> sh ]

\* Promise.all over the leaves has resolved: the records are cached and
\* given to the caller.
flattened(t, c, sh, leaves) ==
    IF t.pc = "flatten" /\ allDone(leaves)
    THEN [ task |-> Resolved([t EXCEPT !.leaves = leaves,
                                       !.records = Some(recordsOf(leaves))]),
           cache |-> setRecords(c, t.ctx, recordsOf(leaves)),
           shadow |-> ShadowSet(sh, "records", t.ctx, recordsOf(leaves)) ]
    ELSE [ task |-> [t EXCEPT !.leaves = leaves], cache |-> c,
           shadow |-> sh ]

\* The response to the request for the cases of the last collection.
RespondCases(success) ==
    /\ pending # <<>>
    /\ Head(pending).kind = "getCases"
    /\ ~run.active
    /\ IF success
       THEN LET values == HostCases(task.ctx, Head(pending).collection)
                leaves == [i \in 1..Len(values) |->
                              Leaf(cache, << values[i] >>)]
                next == flattened([task EXCEPT !.pc = "flatten"], cache,
                                  shadow, leaves)
            IN  /\ task' = next.task
                /\ cache' = next.cache
                /\ shadow' = next.shadow
                /\ pending' = Tail(pending)
                                  \o caseRequests(task.ctx, leaves, 1)
       ELSE /\ task' = Rejected(task, "Failed to get data items")
            /\ pending' = Tail(pending)
            /\ UNCHANGED <<cache, shadow>>
    /\ UNCHANGED run

\* The response to a request of getCaseById, made for one leaf.
RespondCase(success) ==
    /\ pending # <<>>
    /\ Head(pending).kind = "getCase"
    /\ ~run.active
    /\ LET req == Head(pending)
           i == req.leaf
       IN  IF success
           THEN LET result == HostCase(req.id)
                    c1 == setCase(cache, task.ctx, req.id, result)
                    sh1 == ShadowSet(shadow, "cases", req.id, result)
                    leaf == Leaf(c1, Append(task.leaves[i].chain, result))
                    leaves == [task.leaves EXCEPT ![i] = leaf]
                    next == flattened(task, c1, sh1, leaves)
                IN  /\ task' = next.task
                    /\ cache' = next.cache
                    /\ shadow' = next.shadow
                    /\ pending' =
                           Tail(pending)
                           \o (IF leaf.status = "wait"
                               THEN << Request("getCase", task.ctx, "",
                                           Last(leaf.chain).parent[1], i) >>
                               ELSE <<>>)
           ELSE \* getCaseById rejects: Promise.all rejects inside the
                \* response callback, and nothing settles the promise
                \* getDataFromContext returned.
                /\ task' = [task EXCEPT !.leaves[i].status = "failed",
                                        !.pc = "hung"]
                /\ pending' = Tail(pending)
                /\ UNCHANGED <<cache, shadow>>
    /\ UNCHANGED run

\* The update dropping the context's entries once the batch is answered.
RespondBatchInvalidates(responses) ==
    /\ pending # <<>>
    /\ Head(pending).kind = "batch"
    /\ ~run.active
    /\ Len(responses) = Len(task.requests)
    /\ LET thrown == scanResponses(responses, 1, task.ctx)
           t == [task EXCEPT !.responses = responses]
       IN  task' = IF thrown = <<>>
                   THEN Resolved(t)
                   ELSE [t EXCEPT !.pc = "done", !.settled = "rejected",
                                  !.errors = thrown]
    /\ pending' = Tail(pending)
    /\ cache' = invalidateContext(cache, task.ctx)
    /\ shadow' = [shadow EXCEPT
                     !.context = ShadowDrop(shadow.context, task.ctx),
                     !.records = ShadowDrop(shadow.records, task.ctx)]
    /\ UNCHANGED run

\* The responses to the batch of updateContextWithDataSet.
RespondBatch(responses) ==
    /\ pending # <<>>
    /\ Head(pending).kind = "batch"
    /\ ~run.active
    /\ Len(responses) = Len(task.requests)
    /\ LET thrown == scanResponses(responses, 1, task.ctx)
           t == [task EXCEPT !.responses = responses]
       IN  task' = IF thrown = <<>>
                   THEN Resolved(t)
                   ELSE [t EXCEPT !.pc = "done", !.settled = "rejected",
                                  !.errors = thrown]
    /\ pending' = Tail(pending)
    /\ UNCHANGED <<cache, shadow, run>>

\* The caller has its answer (or has given up on a promise that never
\* settles): the next operation may start.
Finish ==
    /\ task.op # "idle"
    /\ pending = <<>>
    /\ task.settled # "none" \/ task.pc = "hung"
    /\ ~run.active
    /\ task' = IdleTask
    /\ UNCHANGED <<cache, shadow, pending, run>>

----------------------------------------------------------------------------
(* The commands the host sends, and the handler's invocation. *)

Values(isArray, items, operation) ==
    [isArray |-> isArray, items |-> items, operation |-> operation]

Command(action, resource, values) ==
    [action |-> action, resource |-> resource, values |-> values]

NoResult == [isArray |-> FALSE, caseIDs |-> <<>>]

\* An operation whose result lists case ids.
Listing(operation, caseIDs) ==
    [operation |-> operation,
     result |-> [isArray |-> TRUE, caseIDs |-> caseIDs]]

\* The operations of a batch: each kind without result, and some with the
\* ids of cases the case store can hold (1 and 2 have children).
Operations ==
    { [operation |-> o, result |-> NoResult] : o \in ContextChangeOperation }
    \cup { Listing(DeleteCases, <<1>>), Listing(DeleteCases, <<1, 2>>),
           Listing(UpdateCases, <<2>>), Listing("CreateCases", <<1, 2>>) }

Batches == UNION { [1..n -> Operations] : n \in 0..MaxBatch }

ContextChangeCommand(name, batch) ==
    Command(Notify, ContextChangeResource(name), Values(TRUE, batch, ""))

\* What a command is, said without the handler's words: the context its
\* resource names, the kind of its operations if they are all of one kind
\* ("" if they are not, or there is none), the case ids its delete-cases
\* and update-cases operations list, whether it has a delete-cases or an
\* update-cases operation, the number k of operations other than
\* update-context and the number m of update-context operations.
About(shape, name, batch) ==
    [ shape |-> shape,
      ctx |-> name,
      only |-> IF /\ batch # <<>>
                  /\ \A i \in DOMAIN batch :
                         batch[i].operation = batch[1].operation
               THEN batch[1].operation
               ELSE "",
      listed |-> UNION { IF /\ batch[i].operation
                                   \in {"DeleteCases", "UpdateCases"}
                            /\ batch[i].result.isArray
                         THEN { batch[i].result.caseIDs[j] :
                                    j \in DOMAIN batch[i].result.caseIDs }
                         ELSE {} : i \in DOMAIN batch },
      cased |-> \E i \in DOMAIN batch :
                    batch[i].operation \in {"DeleteCases", "UpdateCases"},
      k |-> Len(SelectSeq(batch,
                          LAMBDA v : v.operation # "UpdateContext")),
      m |-> Len(SelectSeq(batch,
                          LAMBDA v : v.operation = "UpdateContext")) ]

\* The host delivers a command: the handler runs to its end, nothing else
\* runs meanwhile.
Deliver(command, about) ==
    /\ Quiet
    /\ LET effects == codapRequestHandler(command)
       IN  /\ cache' = applyEffects(cache, effects)
           /\ shadow' = ShadowEffects(shadow, effects)
           /\ run' = [ active |-> TRUE, shape |-> about.shape,
                       ctx |-> about.ctx, only |-> about.only,
                       listed |-> about.listed, cased |-> about.cased,
                       k |-> about.k,
                       m |-> about.m, pre |-> cache, trace |-> effects ]
    /\ UNCHANGED <<pending, task>>

NotifyContextChange ==
    \E name \in ContextNames, batch \in Batches :
        Deliver(ContextChangeCommand(name, batch),
                About("contextChange", name, batch))

NotifyContextCount ==
    Deliver(Command(Notify, DocumentChangeNotice,
                    Values(FALSE, <<>>, DataContextCountChanged)),
            About("contextCount", "", <<>>))

\* Commands the handler has nothing to do for: a request that is no
\* notification, a notice of another resource, a document notice of
\* another operation, a context-change notice whose values are no array,
\* and commands that carry no values at all.
OtherCommands ==
    { Command("get", <<"interactiveState">>, Values(FALSE, <<>>, "")),
      Command(Notify, <<"component">>, Values(TRUE, <<>>, "")),
      Command(Notify, DocumentChangeNotice,
              Values(FALSE, <<>>, "updateDocumentBegun")) }
    \cup { Command(Notify, ContextChangeResource(name),
                   Values(FALSE, <<>>, "DeleteCases")) :
           name \in ContextNames }
    \cup { Command("get", <<"interactiveState">>, Undefined),
           Command(Notify, ContextChangeResource("c1"), Undefined),
           Command(Notify, DocumentChangeNotice, Undefined) }

NotifyOther ==
    \E command \in OtherCommands :
        Deliver(command, About("other", "", <<>>))

\* The handler has returned.
HandlerReturn ==
    /\ run.active
    /\ run' = IdleRun
    /\ UNCHANGED <<cache, shadow, pending, task>>

----------------------------------------------------------------------------
(* The specification: the reads through the cache and the notifications    *)
(* of the host.                                                            *)

Init ==
    /\ cache = EmptyCache
    /\ shadow = EmptyShadow
    /\ pending = <<>>
    /\ task = IdleTask
    /\ run = IdleRun

CallGetDataContext == \E name \in ContextNames : getDataContext(name)

CallGetDataFromContext == \E name \in ContextNames : getDataFromContext(name)

HostRespondContext ==
    \E success \in BOOLEAN, values \in HostSchemas(task.ctx) :
        RespondContext(success, values)

HostRespondCases == \E success \in BOOLEAN : RespondCases(success)

HostRespondCase == \E success \in BOOLEAN : RespondCase(success)

Next ==
    \/ CallGetDataContext
    \/ CallGetDataFromContext
    \/ HostRespondContext
    \/ HostRespondCases
    \/ HostRespondCase
    \/ Finish
    \/ NotifyContextChange
    \/ NotifyContextCount
    \/ NotifyOther
    \/ HandlerReturn

Spec == Init /\ [][Next]_vars

----------------------------------------------------------------------------
(* The specification of the reconciliation: updateContextWithDataSet on    *)
(* context c1, for every shape of its collections and every dataset.       *)

Names == {"a", "b"}

\* The collections of c1 as the host gives them: one or more, their names
\* distinct.
ReconcileSchemas ==
    { [name |-> "c1", collections |-> cs] :
      cs \in { s \in UNION { [1..n -> { Collection(n1, l) :
                                            n1 \in Names,
                                            l \in {"undefined", "custom"} }] :
                             n \in 1..Cardinality(Names) } :
               \A i \in DOMAIN s, j \in DOMAIN s :
                   i # j => s[i].name # s[j].name } }

Datasets ==
    { [collections |-> cs, records |-> << [x |-> 1] >>] :
      cs \in UNION { [1..n -> { Collection(n1, l) :
                                    n1 \in Names,
                                    l \in {"undefined", "default",
                                           "custom"} }] :
                     n \in 0..MaxRequested } }

CallUpdateContextWithDataSet ==
    \E dataset \in Datasets : updateContextWithDataSet("c1", dataset)

ReconcileRespondContext ==
    \E success \in BOOLEAN, values \in ReconcileSchemas :
        RespondContext(success, values)

HostRespondBatch ==
    \E responses \in [1..Len(task.requests) -> BOOLEAN] :
        RespondBatch(responses)

\* The host changes the collections of c1 on its own and says so.
NotifyCollectionChange ==
    LET batch == << [operation |-> "UpdateCollection",
                     result |-> NoResult] >>
    IN  Deliver(ContextChangeCommand("c1", batch),
                About("contextChange", "c1", batch))

ReconcileNext ==
    \/ CallUpdateContextWithDataSet
    \/ ReconcileRespondContext
    \/ HostRespondBatch
    \/ Finish
    \/ NotifyCollectionChange
    \/ HandlerReturn

SpecReconcile == Init /\ [][ReconcileNext]_vars

----------------------------------------------------------------------------
(* The specification of the reads with notifications in between: the host  *)
(* may send a notification while requests of a read are in flight, and the *)
(* handler runs between two response callbacks.                            *)

\* The handler runs while a call may be waiting for a response.
DeliverBetween(command, about) ==
    /\ ~run.active
    /\ task.settled = "none"
    /\ LET effects == codapRequestHandler(command)
       IN  /\ cache' = applyEffects(cache, effects)
           /\ shadow' = ShadowEffects(shadow, effects)
           /\ run' = [ active |-> TRUE, shape |-> about.shape,
                       ctx |-> about.ctx, only |-> about.only,
                       listed |-> about.listed, cased |-> about.cased,
                       k |-> about.k,
                       m |-> about.m, pre |-> cache, trace |-> effects ]
           /\ task' = IF /\ task.op # "idle"
                         /\ \E i \in 1..Len(effects) :
                                effects[i] = Effect("invalidateContext",
                                                    task.ctx, 0)
                      THEN [task EXCEPT !.missed = @ \cup {task.pc}]
                      ELSE task
    /\ UNCHANGED pending

\* The batches the host sends in between: a case update, a deletion that
\* lists a parent case, a rename of the context.
BatchesBetween ==
    { << [operation |-> UpdateCases, result |-> NoResult] >>,
      << Listing(DeleteCases, <<2>>) >>,
      << [operation |-> UpdateContext, result |-> NoResult] >> }

NotifyBetween ==
    \E name \in ContextNames, batch \in BatchesBetween :
        DeliverBetween(ContextChangeCommand(name, batch),
                       About("contextChange", name, batch))

AsyncNext ==
    \/ CallGetDataContext
    \/ CallGetDataFromContext
    \/ HostRespondContext
    \/ HostRespondCases
    \/ HostRespondCase
    \/ Finish
    \/ NotifyBetween
    \/ HandlerReturn

SpecAsync == Init /\ [][AsyncNext]_vars

----------------------------------------------------------------------------
(* The specification of long batches: the reads of Spec, and notifications *)
(* whose batches are longer and drawn from fewer operations.               *)

BatchOps ==
    { [operation |-> o, result |-> NoResult] :
          o \in {UpdateContext, UpdateCases, "CreateAttribute"} }
    \cup { Listing(DeleteCases, <<2>>) }

LongBatches == UNION { [1..n -> BatchOps] : n \in 1..MaxOps }

NotifyLongBatch ==
    \E name \in ContextNames, batch \in LongBatches :
        Deliver(ContextChangeCommand(name, batch),
                About("contextChange", name, batch))

BatchNext ==
    \/ CallGetDataFromContext
    \/ HostRespondContext
    \/ HostRespondCases
    \/ HostRespondCase
    \/ Finish
    \/ NotifyLongBatch
    \/ HandlerReturn

SpecBatches == Init /\ [][BatchNext]_vars

----------------------------------------------------------------------------
(* The specification of updates among reads: the reads of Spec on a        *)
(* context, updateContextWithDataSet on it, and the host's notifications.  *)

\* The datasets of the updates: the collections of c1 as they are, and one
\* flat collection instead.
UpdateDatasets ==
    { [ collections |-> << Collection("roots", "undefined"),
                           Collection("mids", "custom"),
                           Collection("leaves", "custom") >>,
        records |-> << [x |-> 1] >> ],
      [ collections |-> << Collection("flat", "undefined") >>,
        records |-> << [x |-> 1] >> ] }

CallUpdate ==
    \E name \in ContextNames, dataset \in UpdateDatasets :
        updateContextWithDataSet(name, dataset)

NotifyChanged ==
    \E name \in ContextNames, batch \in BatchesBetween :
        Deliver(ContextChangeCommand(name, batch),
                About("contextChange", name, batch))

UpdateNext ==
    \/ CallGetDataContext
    \/ CallGetDataFromContext
    \/ CallUpdate
    \/ HostRespondContext
    \/ HostRespondCases
    \/ HostRespondCase
    \/ HostRespondBatch
    \/ Finish
    \/ NotifyChanged
    \/ HandlerReturn

SpecUpdate == Init /\ [][UpdateNext]_vars

----------------------------------------------------------------------------
(* Claims about the reconciliation, checked under SpecReconcile. *)

\* The batch of updateContextWithDataSet has been built.
BatchBuilt == task.op = "updateContextWithDataSet" /\ task.requests # <<>>

\* The collections the context has, as getDataContext gave them.
Existing == cache.context[task.ctx].collections

Requested == task.dataset.collections

Filled(labels) == IF labels = "undefined" THEN "default" ELSE labels

\* The requested sequence is the current one, once its defaults are filled.
SameSchema ==
    /\ Len(Requested) = Len(Existing)
    /\ \A i \in 1..Len(Existing) :
           /\ Requested[i].name = Existing[i].name
           /\ Filled(Requested[i].labels) = Existing[i].labels

OpsOf(kind) == { i \in 1..Len(task.requests) : task.requests[i].op = kind }

\* C2: when the requested sequence differs from the current one, the batch
\* is, in this order and with nothing else: one delete-all-cases per
\* existing collection, the creation of the placeholder, one
\* delete-collection per existing collection, the creation of the whole
\* requested sequence, the deletion of the placeholder, the insertion of
\* the data items.
C2_ChangedSchemaBatch ==
    BatchBuilt /\ ~SameSchema =>
        LET r == task.requests
            n == Len(Existing)
        IN  /\ Len(r) = 2 * n + 4
            /\ \A i \in 1..Len(r) : r[i].context = task.ctx
            /\ \A i \in 1..n :
                   /\ r[i].op = "deleteAllCases"
                   /\ r[i].collection = Existing[i].name
                   /\ r[n + 1 + i].op = "deleteCollection"
                   /\ r[n + 1 + i].collection = Existing[i].name
            /\ r[n + 1].op = "createCollections"
            /\ Len(r[n + 1].collections) = 1
            /\ r[2 * n + 2].op = "createCollections"
            /\ r[2 * n + 2].collections = Requested
            /\ r[2 * n + 3].op = "deleteCollection"
            /\ r[2 * n + 3].collection = r[n + 1].collections[1].name
            /\ r[2 * n + 4].op = "insertDataItems"
            /\ r[2 * n + 4].records = task.dataset.records

\* A changed schema over two existing collections: a batch of eight.
C2_Witness ==
    /\ BatchBuilt
    /\ ~SameSchema
    /\ Len(Existing) = 2
    /\ Len(Requested) = 2
    /\ Len(task.requests) = 8

\* C3: when the requested sequence equals the current one after
\* default-filling, the batch holds no create-collections and no
\* delete-collection, and exactly one insert-data-items.
C3_SameSchemaBatch ==
    BatchBuilt /\ SameSchema =>
        /\ OpsOf("createCollections") = {}
        /\ OpsOf("deleteCollection") = {}
        /\ Cardinality(OpsOf("insertDataItems")) = 1

\* The same two collections are requested, one of them without labels.
C3_Witness ==
    /\ BatchBuilt
    /\ SameSchema
    /\ Len(Requested) = 2
    /\ Requested[1].labels = "undefined"
    /\ Cardinality(OpsOf("insertDataItems")) = 1

\* C4: in a schema-changing reconciliation the placeholder's name differs
\* from every existing and every requested collection name.
C4_PlaceholderFresh ==
    BatchBuilt /\ ~SameSchema =>
        LET placeholder ==
                task.requests[Len(Existing) + 1].collections[1].name
        IN  /\ \A i \in 1..Len(Existing) : placeholder # Existing[i].name
            /\ \A i \in 1..Len(Requested) : placeholder # Requested[i].name

\* The batch has been answered.
BatchAnswered ==
    task.op = "updateContextWithDataSet" /\ task.responses # <<>>

\* C5: once the batch is answered, the update fails, with the one error
\* that names the context, if and only if some response is a failure,
\* wherever it is; it completes if every response is a success.
C5_AggregateError ==
    BatchAnswered =>
        IF \E i \in 1..Len(task.responses) : ~task.responses[i]
        THEN /\ task.settled = "rejected"
             /\ task.errors = << "Failed to update " \o task.ctx >>
        ELSE /\ task.settled = "resolved"
             /\ task.errors = <<>>

\* The third of six steps failed, the others succeeded.
C5_Witness ==
    /\ BatchAnswered
    /\ task.responses = << TRUE, TRUE, FALSE, TRUE, TRUE, TRUE >>
    /\ task.settled = "rejected"

----------------------------------------------------------------------------
(* Claims about flattening, the notification handler and the cache,        *)
(* checked under Spec.                                                     *)

\* A case of the host followed by its ancestors, nearest first.
RECURSIVE HostChain(_)
HostChain(c) ==
    IF c.parent = None
    THEN << c >>
    ELSE << c >> \o HostChain(HostCase(c.parent[1]))

\* Every key of the chain, with the value of the deepest case that has it
\* (the chain starts with the deepest).
DeepestWins(chain) ==
    [key \in UNION { DOMAIN chain[i].values : i \in 1..Len(chain) } |->
        chain[CHOOSE i \in 1..Len(chain) :
                  /\ key \in DOMAIN chain[i].values
                  /\ \A j \in 1..(i - 1) : key \notin DOMAIN chain[j].values
             ].values[key]]

\* The cases of the last collection of a context.
LeafCases(name) ==
    HostCases(name,
              Last((CHOOSE v \in HostSchemas(name) : TRUE).collections).name)

\* C1: the records getDataFromContext gives hold, for every leaf case and
\* every attribute name of its chain, the value of the deepest case of the
\* chain that has the name: a descendant's value is not overwritten by an
\* ancestor's, and the keys of ancestors alone survive.
C1_DescendantWins ==
    task.op = "getDataFromContext" /\ task.settled = "resolved" =>
        task.records[1] =
            [i \in 1..Len(LeafCases(task.ctx)) |->
                DeepestWins(HostChain(LeafCases(task.ctx)[i]))]

\* The handler is handling a context-change notification with a batch.
Handled == run.active /\ run.shape = "contextChange"

Called(fn, ctx) ==
    \E i \in 1..Len(run.trace) :
        run.trace[i].fn = fn /\ run.trace[i].ctx = ctx

\* C6: for a batch about context X, X's schema and record set are
\* invalidated and the listeners of X are called if and only if the batch
\* has an operation other than update-context; a batch of create-attribute
\* alone invalidates X, calls X's listeners and does not call the
\* listeners of the context list.
C6_ContextUpdate ==
    Handled =>
        /\ run.k >= 1 <=> Called("invalidateContext", run.ctx)
        /\ run.k >= 1 <=> Called("callUpdateListenersForContext", run.ctx)
        /\ run.k >= 1 =>
               /\ getContext(cache, run.ctx) = None
               /\ getRecords(cache, run.ctx) = None
        /\ run.k = 0 =>
               /\ cache.context = run.pre.context
               /\ cache.records = run.pre.records
        /\ run.only = "CreateAttribute" =>
               /\ Called("invalidateContext", run.ctx)
               /\ Called("callUpdateListenersForContext", run.ctx)
               /\ ~Called("callAllContextListeners", "")

\* A batch of create-attribute alone has dropped a cached schema and a
\* cached record set.
C6_Witness ==
    /\ Handled
    /\ run.only = "CreateAttribute"
    /\ getContext(run.pre, run.ctx) # None
    /\ getRecords(run.pre, run.ctx) # None
    /\ getContext(cache, run.ctx) = None
    /\ Called("callUpdateListenersForContext", run.ctx)

\* C7: the listeners of the context list are called if and only if the
\* batch has an update-context operation; a batch of update-context alone
\* calls them, invalidates no schema and no record set, and calls no
\* listener of a context.
C7_ContextListUpdate ==
    Handled =>
        /\ run.m >= 1 <=> Called("callAllContextListeners", "")
        /\ run.only = "UpdateContext" =>
               /\ Called("callAllContextListeners", "")
               /\ cache.context = run.pre.context
               /\ cache.records = run.pre.records
               /\ \A i \in 1..Len(run.trace) :
                      run.trace[i].fn \notin
                          {"invalidateContext",
                           "callUpdateListenersForContext"}

\* A batch of update-context alone, about a context whose schema and
\* records are cached and stay so.
C7_Witness ==
    /\ Handled
    /\ run.only = "UpdateContext"
    /\ getContext(cache, run.ctx) # None
    /\ getRecords(cache, run.ctx) # None
    /\ Called("callAllContextListeners", "")

\* C8: handling a batch removes from the case store exactly the ids its
\* delete-cases and update-cases operations list; every other entry stays
\* as it was, and no other kind of operation removes an entry.
C8_CaseInvalidation ==
    Handled =>
        cache.cases = [id \in DOMAIN run.pre.cases \ run.listed |->
                          run.pre.cases[id]]

\* Case 1 was listed and is gone; case 2 was not and is still there.
C8_Witness ==
    /\ Handled
    /\ run.listed = {1}
    /\ DOMAIN run.pre.cases = {1, 2}
    /\ DOMAIN cache.cases = {2}

\* C9: right after the handler invalidates a context, its schema entry and
\* its record set are both absent; records that getDataFromContext takes
\* from the cache were therefore set after the last invalidation.
C9_InvalidationDropsRecords ==
    /\ \A name \in ContextNames :
           run.active /\ Called("invalidateContext", name) =>
               /\ getContext(cache, name) = None
               /\ getRecords(cache, name) = None
    /\ task.op = "getDataFromContext" /\ task.settled = "resolved"
           /\ task.leaves = <<>> =>
               task.records = shadow.records[task.ctx]

\* The schema and the record set were cached; the batch lists no case.
C9_Witness ==
    /\ Handled
    /\ Called("invalidateContext", run.ctx)
    /\ run.listed = {}
    /\ getContext(run.pre, run.ctx) # None
    /\ getRecords(run.pre, run.ctx) # None
    /\ getRecords(cache, run.ctx) = None

\* C10: in each of the three stores, get gives for every key the value of
\* the last set, and absent if the key was never set or was invalidated
\* since.
C10_CacheAlgebra ==
    /\ \A name \in ContextNames :
           /\ getContext(cache, name) = shadow.context[name]
           /\ getRecords(cache, name) = shadow.records[name]
    /\ \A id \in CaseIds : getCase(cache, id) = shadow.cases[id]

\* A schema that was set is absent after its invalidation, while a case
\* that was set and not invalidated is still there.
C10_Witness ==
    /\ run.active
    /\ getContext(run.pre, "c1") # None
    /\ getContext(cache, "c1") = None
    /\ getCase(cache, 2) = Some(HostCase(2))

----------------------------------------------------------------------------
(* Claims about the handler's replies, failures of requests, the requests  *)
(* a read issues and notifications between them.                           *)

Count(fn) ==
    Cardinality({ i \in 1..Len(run.trace) : run.trace[i].fn = fn })

Listeners == {"callUpdateListenersForContext", "callAllContextListeners"}

\* C11: every command the handler is given is answered with exactly one
\* success reply, and a command that is no notification, or a notification
\* of an unrecognized resource or shape, changes no cache entry and calls
\* no listener.
C11_AlwaysReplies ==
    run.active =>
        /\ Count("callback") = 1
        /\ run.shape = "other" =>
               /\ cache = run.pre
               /\ \A i \in 1..Len(run.trace) :
                      run.trace[i].fn \notin Listeners

\* A request made for the running getDataFromContext got a non-success
\* response.
FetchFailed ==
    \/ task.errors # <<>>
    \/ \E i \in 1..Len(task.leaves) : task.leaves[i].status = "failed"

\* C12: when a request made for a getDataFromContext call (for the schema,
\* for the cases of the last collection, or for a parent case) gets a
\* non-success response, the call's promise is rejected: once every
\* request is answered it is not resolved and not left pending.
C12_FailurePropagates ==
    task.op = "getDataFromContext" /\ FetchFailed /\ pending = <<>> =>
        task.settled = "rejected"

\* A call of op starts in this step.
Starts(op) == task.op = "idle" /\ task'.op = op

\* The requests this step adds to those in flight.
Issued ==
    IF Len(pending') > Len(pending)
    THEN SubSeq(pending', Len(pending) + 1, Len(pending'))
    ELSE IF pending # <<>> /\ Len(pending') = Len(pending)
              /\ pending' # pending
    THEN << Last(pending') >>
    ELSE <<>>

\* C13: getDataContext, getCaseById and getDataFromContext go through the
\* cache.  A call whose entry is present gives the cached value and issues
\* no request; a call whose entry is absent issues the request, and the
\* value of a success response is in the cache when the call gives it.
C13_ThroughCache ==
    [][ /\ Starts("getDataContext") =>
               IF getContext(cache, task'.ctx) # None
               THEN /\ task'.settled = "resolved"
                    /\ task'.context = getContext(cache, task'.ctx)
                    /\ pending' = <<>>
               ELSE /\ task'.settled = "none"
                    /\ pending' =
                           << Request("getContext", task'.ctx, "", 0, 0) >>
        /\ Starts("getDataFromContext") =>
               IF getRecords(cache, task'.ctx) # None
               THEN /\ task'.settled = "resolved"
                    /\ task'.records = getRecords(cache, task'.ctx)
                    /\ pending' = <<>>
               ELSE /\ task'.settled = "none"
                    /\ Len(pending') = 1
                    /\ pending'[1].kind = "getContext"
                           <=> getContext(cache, task'.ctx) = None
        /\ \A i \in 1..Len(Issued) :
               Issued[i].kind = "getCase" =>
                   getCase(cache', Issued[i].id) = None
        /\ task.op # "idle" /\ task.settled = "none"
               /\ task'.settled = "resolved" =>
               /\ task.op = "getDataContext" =>
                      /\ task'.context # None
                      /\ getContext(cache', task.ctx) = task'.context
               /\ task.op = "getDataFromContext" =>
                      /\ task'.records # None
                      /\ getRecords(cache', task.ctx) = task'.records
        /\ \A i \in 1..Len(task'.leaves) :
           \A j \in 2..Len(task'.leaves[i].chain) :
               task'.op = "getDataFromContext" /\ task'.pc # "hung" =>
                   getCase(cache', task'.leaves[i].chain[j].id)
                       = Some(task'.leaves[i].chain[j])
      ]_vars

\* getDataFromContext was called with the records in the cache: it has
\* given them and nothing was requested.
C13_Witness ==
    /\ task.op = "getDataFromContext"
    /\ task.settled = "resolved"
    /\ task.leaves = <<>>
    /\ pending = <<>>
    /\ task.records = getRecords(cache, task.ctx)
    /\ task.records # None

\* The running call fetched its value and resolved, and the handler
\* invalidated the call's context while the call was under way.
SetAfterInvalidation ==
    /\ task.settled = "resolved"
    /\ task.missed # {}

\* C14 (under SpecAsync): a read's miss, fetch and set are not atomic.  When
\* a notification invalidates context X after a read of X issued its
\* fetch and before the read's set, the set is applied all the same:
\* afterwards the entry of X is present and holds the value the read gives,
\* which for a record set is built from the leaf cases fetched earlier.
C14_LateSetWins ==
    SetAfterInvalidation =>
        /\ task.op = "getDataContext" =>
               /\ task.context # None
               /\ getContext(cache, task.ctx) = task.context
        /\ task.op = "getDataFromContext" =>
               /\ task.records = Some(recordsOf(task.leaves))
               /\ getRecords(cache, task.ctx) = task.records

\* The leaf cases of c1 were fetched, then the handler invalidated c1 while
\* the parent cases were being fetched, and the records were set after it.
C14_Witness ==
    /\ task.op = "getDataFromContext"
    /\ task.ctx = "c1"
    /\ task.settled = "resolved"
    /\ "flatten" \in task.missed
    /\ getRecords(cache, "c1") = Some(recordsOf(task.leaves))

\* C15: with no case invalidated meanwhile, at most one request is issued
\* for each distinct case id, also when several leaf cases that share a
\* parent are flattened together: no two requests for one case id are in
\* flight at once.
C15_OneFetchPerCase ==
    \A i \in 1..Len(pending), j \in 1..Len(pending) :
        /\ i # j
        /\ pending[i].kind = "getCase"
        /\ pending[j].kind = "getCase"
        => pending[i].id # pending[j].id

\* C16 as stated (under SpecReconcile): when the requested sequence equals
\* the current one, the batch is the insert-data-items operation alone,
\* with no delete-all-cases.
C16_InsertOnly ==
    BatchBuilt /\ SameSchema =>
        /\ Len(task.requests) = 1
        /\ task.requests[1].op = "insertDataItems"

\* C16 (under SpecReconcile): when the requested sequence equals the
\* current one after default-filling, the batch is one delete-all-cases
\* per existing collection, in their order, followed by the one
\* insert-data-items with the dataset's records, and nothing else.
C16_ClearThenInsert ==
    BatchBuilt /\ SameSchema =>
        LET r == task.requests
            n == Len(Existing)
        IN  /\ Len(r) = n + 1
            /\ \A i \in 1..Len(r) : r[i].context = task.ctx
            /\ \A i \in 1..n :
                   /\ r[i].op = "deleteAllCases"
                   /\ r[i].collection = Existing[i].name
            /\ r[n + 1].op = "insertDataItems"
            /\ r[n + 1].records = task.dataset.records

\* Two collections exist and the same two are requested: the batch has
\* three operations.
C16_Witness ==
    /\ BatchBuilt
    /\ SameSchema
    /\ Len(Existing) = 2
    /\ Len(task.requests) = 3
    /\ task.requests[1].op = "deleteAllCases"

----------------------------------------------------------------------------
(* listeners.ts: the registered listeners and the two functions the        *)
(* handler calls.  Each call invokes every listener of its registry once.  *)

\* The listeners registered for changes of the list of contexts.
ContextListeners == {"onContexts1", "onContexts2"}

\* The listeners registered for changes of one context.
UpdateListeners(name) ==
    IF name = "c1" THEN {"onC1a", "onC1b"}
    ELSE IF name = "c2" THEN {"onC2"}
    ELSE {}

callAllContextListeners == ContextListeners

callUpdateListenersForContext(name) == UpdateListeners(name)

\* The listeners one call of the handler invokes.
Invoked(e) ==
    IF e.fn = "callAllContextListeners" THEN callAllContextListeners
    ELSE IF e.fn = "callUpdateListenersForContext"
    THEN callUpdateListenersForContext(e.ctx)
    ELSE {}

\* How many times the running handler invoked listener l.
Invocations(l) ==
    Cardinality({ i \in 1..Len(run.trace) : l \in Invoked(run.trace[i]) })

\* C17: a document notice of a changed context count invokes every
\* listener of the context list once, invokes no listener of a context and
\* leaves the three stores as they were.
C17_ContextCountChanged ==
    run.active /\ run.shape = "contextCount" =>
        /\ \A l \in ContextListeners : Invocations(l) = 1
        /\ \A name \in ContextNames :
               \A l \in UpdateListeners(name) : Invocations(l) = 0
        /\ cache = run.pre

\* The notice is handled with a schema, parent cases and a record set in
\* the cache.
C17_Witness ==
    /\ run.active
    /\ run.shape = "contextCount"
    /\ getContext(cache, "c1") # None
    /\ getRecords(cache, "c1") # None
    /\ getCase(cache, 2) # None
    /\ Invocations("onContexts1") = 1

\* C18 (under SpecBatches): listeners are invoked once for a batch, not
\* once for each of its operations.  For a batch with k >= 1 operations
\* other than update-context and m >= 1 update-context operations, the
\* context is invalidated once, each of its listeners is invoked once and
\* each listener of the context list is invoked once, whatever k and m.
C18_OncePerBatch ==
    Handled /\ run.k >= 1 /\ run.m >= 1 =>
        /\ Count("invalidateContext") = 1
        /\ Called("invalidateContext", run.ctx)
        /\ \A l \in UpdateListeners(run.ctx) : Invocations(l) = 1
        /\ \A l \in ContextListeners : Invocations(l) = 1

\* A batch with two operations that change the context's data and one
\* update-context.
C18_Witness ==
    /\ Handled
    /\ run.k = 2
    /\ run.m = 1
    /\ Count("invalidateContext") = 1
    /\ Invocations("onC1a") = 1
    /\ Invocations("onContexts1") = 1

\* C19: after a batch about context X that has a delete-cases or an
\* update-cases operation, the record set of X and its schema are absent:
\* a batch that invalidates a case also invalidates its context.
C19_NoStaleRecords ==
    Handled /\ run.cased =>
        /\ getRecords(cache, run.ctx) = None
        /\ getContext(cache, run.ctx) = None
        /\ Called("invalidateContext", run.ctx)

\* Case 2 and the records built from it were cached; the batch lists case
\* 2, and both are gone.
C19_Witness ==
    /\ Handled
    /\ run.listed = {2}
    /\ getCase(run.pre, 2) # None
    /\ getRecords(run.pre, run.ctx) # None
    /\ getCase(cache, 2) = None
    /\ getRecords(cache, run.ctx) = None

\* C20: a context-change notification whose resource names X touches X
\* alone: the schema and the record set of every other context are as
\* they were, and no listener of another context is invoked.
C20_OnlyNamedContext ==
    Handled =>
        \A other \in ContextNames \ {run.ctx} :
            /\ getContext(cache, other) = getContext(run.pre, other)
            /\ getRecords(cache, other) = getRecords(run.pre, other)
            /\ \A l \in UpdateListeners(other) : Invocations(l) = 0
            /\ ~Called("invalidateContext", other)
            /\ ~Called("callUpdateListenersForContext", other)

\* Both contexts are cached; a batch about c1 drops c1's entries, invokes
\* c1's listeners and leaves c2's entries.
C20_Witness ==
    /\ Handled
    /\ run.ctx = "c1"
    /\ getRecords(run.pre, "c1") # None
    /\ getRecords(cache, "c1") = None
    /\ getContext(cache, "c2") # None
    /\ getRecords(cache, "c2") # None
    /\ Invocations("onC1a") = 1

----------------------------------------------------------------------------
(* Claims about failed fetches, the order of the handler's calls and the   *)
(* cache across a reconciliation.                                          *)

\* This step handles a non-success response.
FailureStep ==
    /\ pending # <<>>
    /\ pending' = Tail(pending)
    /\ \/ task'.errors # task.errors
       \/ \E i \in DOMAIN task.leaves \cap DOMAIN task'.leaves :
              /\ task'.leaves[i].status = "failed"
              /\ task.leaves[i].status # "failed"

\* C21: a non-success response to the request of getDataContext, of
\* getCaseById or to the case-list request of getDataFromContext writes
\* nothing: the cache is after the response as it was before it, the entry
\* of the schema (or of the record set) asked for is still absent, and a
\* case that was absent is absent.
C21_FailureWritesNothing ==
    [][ FailureStep =>
            /\ cache' = cache
            /\ Head(pending).kind = "getContext" =>
                   getContext(cache', task.ctx) = None
            /\ Head(pending).kind = "getCases" =>
                   getRecords(cache', task.ctx) = None
            /\ Head(pending).kind = "getCase"
                   /\ getCase(cache, Head(pending).id) = None =>
                   getCase(cache', Head(pending).id) = None
      ]_vars

\* The schema request of c2 failed while the cache held the schema of c1:
\* c2 is still absent and c1 still there.
C21_Witness ==
    /\ task.op = "getDataContext"
    /\ task.ctx = "c2"
    /\ task.settled = "rejected"
    /\ getContext(cache, "c2") = None
    /\ getContext(cache, "c1") # None

\* The cache at the moment the handler makes its i-th call.
CacheAt(i) == applyEffects(run.pre, SubSeq(run.trace, 1, i - 1))

\* C22: while one batch is handled, the invalidation of context X and of
\* the listed cases comes before the call of X's listeners and before the
\* success reply: when X's listeners run, the schema and record set of X
\* and the listed cases are absent, so that a getDataContext(X) made by a
\* listener finds nothing in the cache.
C22_InvalidateBeforeListeners ==
    Handled =>
        \A i \in 1..Len(run.trace) :
            /\ run.trace[i].fn \in {"callUpdateListenersForContext",
                                    "callback"} =>
                   \A j \in 1..Len(run.trace) :
                       run.trace[j].fn \in {"invalidateCase",
                                            "invalidateContext"} => j < i
            /\ run.trace[i].fn = "callUpdateListenersForContext" =>
                   /\ run.trace[i].ctx = run.ctx
                   /\ getContext(CacheAt(i), run.ctx) = None
                   /\ getRecords(CacheAt(i), run.ctx) = None
                   /\ \A id \in run.listed : getCase(CacheAt(i), id) = None

\* The schema of X and cases 1 and 2 were cached; the batch lists both
\* cases and X's listeners are called.
C22_Witness ==
    /\ Handled
    /\ run.listed = {1, 2}
    /\ getContext(run.pre, run.ctx) # None
    /\ getCase(run.pre, 1) # None
    /\ getCase(run.pre, 2) # None
    /\ Called("callUpdateListenersForContext", run.ctx)
    /\ Last(run.trace).fn = "callback"

\* This step is the handler's, for a notification about context name.
HandlesFor(name) ==
    /\ ~run.active
    /\ run'.active
    /\ run'.ctx = name

\* C23 (under SpecUpdate): updateContextWithDataSet invalidates nothing.
\* No step of an update changes the record sets or the cases, and the one
\* change it makes to the schemas is the entry its own getDataContext
\* fills when it was absent.  An entry of a context that is present changes
\* only when a notification about that context is handled, and until then
\* getDataContext and getDataFromContext give the cached value.
C23_UpdateInvalidatesNothing ==
    [][ /\ task'.op = "updateContextWithDataSet" =>
               /\ cache'.records = cache.records
               /\ cache'.cases = cache.cases
               /\ \A name \in ContextNames :
                      getContext(cache', name) # getContext(cache, name) =>
                          /\ name = task'.ctx
                          /\ getContext(cache, name) = None
        /\ \A name \in ContextNames :
               /\ getContext(cache, name) # None
                      /\ getContext(cache', name) # getContext(cache, name)
                      => HandlesFor(name)
               /\ getRecords(cache, name) # None
                      /\ getRecords(cache', name) # getRecords(cache, name)
                      => HandlesFor(name)
        /\ Starts("getDataContext")
               /\ getContext(cache, task'.ctx) # None =>
               task'.context = getContext(cache, task'.ctx)
        /\ Starts("getDataFromContext")
               /\ getRecords(cache, task'.ctx) # None =>
               task'.records = getRecords(cache, task'.ctx)
      ]_vars

\* The update of c1 to one flat collection has completed, its batch of ten
\* operations answered with success; the schema of three collections and
\* the records flattened from them are still in the cache.
C23_Witness ==
    /\ task.op = "updateContextWithDataSet"
    /\ task.ctx = "c1"
    /\ task.settled = "resolved"
    /\ Len(task.requests) = 10
    /\ getRecords(cache, "c1") # None
    /\ getContext(cache, "c1") # None
    /\ Len(cache.context["c1"].collections) = 3

====
